---- MODULE Spec2Model ----
(***************************************************************************)
(* ArduinoCrashMonitor: the watchdog crash monitor that stores crash       *)
(* reports in EEPROM (src/src/ArduinoCrashMonitor.cpp, .h).                *)
(*                                                                         *)
(* The EEPROM is a byte array; the header (savedReports, uNextReport) and  *)
(* the packed CCrashReport records are serialised into it byte by byte, as *)
(* readBlock / writeBlock do.                                              *)
(***************************************************************************)
EXTENDS Integers, Sequences, FiniteSets

VARIABLES
    eeprom,        \* EEPROM contents: address -> byte
    nBaseAddress,  \* CrashMonitor::_nBaseAddress
    nMaxEntries,   \* CrashMonitor::_nMaxEntries
    pcSize,        \* PROGRAM_COUNTER_SIZE of the build (2, or 3 on the ATmega2560)
    crashReport,   \* CrashMonitor::_crashReport (the working report)
    header,        \* the local CCrashMonitorHeader of the last operation
    phase,         \* "run": application code; "handler": inside the interrupt handler
    last,          \* what the last operation returned, and the report last stored
    tracked,       \* TRUE while the storage was empty (erased or cleared) and only captured into
    nCaptured,     \* number of captures since Init or the last clear()
    nTotal,        \* number of captures since Init
    captured,      \* the reports captured since Init or the last clear(), oldest first
    wdt,           \* the hardware watchdog: mode, period and ticks elapsed since its last reset
    userCrashHandler, \* CrashMonitor::userCrashHandler: "NULL" or the kind of hook registered
    tagArg,        \* the argument of the last setData() since begin(), 0 if none
    quiet,         \* ticks since the application last called enableWatchdog() or iAmAlive()
    enabled,       \* enableWatchdog() was called, with no disableWatchdog(), expiry or reset since
    cap,           \* how far the handler has got when its storage writes are taken one by one
    clr            \* how far clear() has got when its storage writes are taken one by one

vars == <<eeprom, nBaseAddress, nMaxEntries, pcSize, crashReport, header,
          phase, last, tracked, nCaptured, nTotal, captured,
          wdt, userCrashHandler, tagArg, quiet, enabled, cap, clr>>

----------------------------------------------------------------------------
(* Bounds of the model *)

MaxEntries == 3                      \* largest maxEntries passed to begin()
\* captures allowed in one run: enough to fill every slot and wrap once
CaptureLimit(maxEntries) ==
    (IF maxEntries <= MaxEntries THEN maxEntries ELSE MaxEntries) + 1
MaxBase == 3                         \* the base address passed to begin()
TimeoutTicks == 3                    \* ticks of the timeout passed to enableWatchdog()
SecondaryTicks == 2                  \* ticks of the WDTO_120MS period armed by the handler

(* Sizes fixed by the packed structs *)
HeaderSize == 2
UserDataSize == 4
ReportSize(pc) == pc + UserDataSize

PCSizes == {2, 3}
EepromSize == MaxBase + HeaderSize + (MaxEntries + 1) * ReportSize(3) + 1
Addresses == 0 .. (EepromSize - 1)
Byte == 0 .. 255

BaseAddresses == {MaxBase}
\* interrupted program counters (word addresses) of a build
PCWords(pc) == IF pc = 2 THEN {258, 772}          \* 0x0102, 0x0304
               ELSE {66051, 263430}               \* 0x010203, 0x040506
ScenarioWords == {256, 512, 768, 1024}            \* 0x100, 0x200, 0x300, 0x400
UserTags == {67305985}                            \* 0x04030201
\* raw header bytes found in storage at start-up
HeaderSamples == {0, 1, MaxEntries + 1, 255}
WideEntries == {254, 255, 256}

----------------------------------------------------------------------------
(* Serialisation of the packed structs (AVR is little-endian) *)

RECURSIVE Pow256(_)
Pow256(n) == IF n = 0 THEN 1 ELSE 256 * Pow256(n - 1)

\* a uint32_t as it lies in memory; the model keeps uData as these four bytes
\* (an erased 0xFFFFFFFF does not fit TLC's integers)
U32Bytes(u) == [i \in 1 .. UserDataSize |-> (u \div Pow256(i - 1)) % 256]

\* memcpy of n bytes into a zeroed uint32_t
LEValue(bytes) ==
    LET RECURSIVE Sum(_)
        Sum(i) == IF i = 0 THEN 0 ELSE bytes[i] * Pow256(i - 1) + Sum(i - 1)
    IN Sum(Len(bytes))

\* the return address as the interrupt pushed it on the stack: the byte at
\* SP+1 is the most significant one
StackBytes(word, pc) == [i \in 1 .. pc |-> (word \div Pow256(pc - i)) % 256]

\* a report laid out with the user data first
ReportBytes_TagFirst(report) == report.uData \o report.auAddress

\* the bytes of the packed CCrashReport
ReportBytes(report) == report.auAddress \o report.uData

\* the most significant byte first, as a number is printed
Digits(bytes) == [i \in 1 .. Len(bytes) |-> bytes[Len(bytes) + 1 - i]]

ZeroReport(pc) == [auAddress |-> [i \in 1 .. pc |-> 0], uData |-> U32Bytes(0)]

----------------------------------------------------------------------------
(* Block I/O *)

readBlock(ee, baseAddress, uSize) ==
    [i \in 1 .. uSize |-> ee[(baseAddress + i - 1) % EepromSize]]

writeBlock(ee, baseAddress, data) ==
    [a \in DOMAIN ee |->
        IF \E i \in 1 .. Len(data) : (baseAddress + i - 1) % EepromSize = a
        THEN data[CHOOSE i \in 1 .. Len(data) : (baseAddress + i - 1) % EepromSize = a]
        ELSE ee[a]]

----------------------------------------------------------------------------
(* Report store *)

\* variants of loadHeader with one validation step wrong
loadHeader_NoClamp(ee, base, maxEntries) ==
    LET raw == readBlock(ee, base, HeaderSize)
        saved == IF raw[1] = 255 THEN 0 ELSE raw[1]
        next == IF raw[2] >= maxEntries THEN 0 ELSE raw[2]
    IN [savedReports |-> saved, uNextReport |-> next]

loadHeader_NoSentinel(ee, base, maxEntries) ==
    LET raw == readBlock(ee, base, HeaderSize)
        saved == IF raw[1] > maxEntries THEN maxEntries % 256 ELSE raw[1]
        next == IF raw[2] >= maxEntries THEN 0 ELSE raw[2]
    IN [savedReports |-> saved, uNextReport |-> next]

loadHeader_ClampToZero(ee, base, maxEntries) ==
    LET raw == readBlock(ee, base, HeaderSize)
        saved == IF raw[1] = 255 THEN 0
                 ELSE IF raw[1] > maxEntries THEN 0
                 ELSE raw[1]
        next == IF raw[2] >= maxEntries THEN 0 ELSE raw[2]
    IN [savedReports |-> saved, uNextReport |-> next]

loadHeader_ModNext(ee, base, maxEntries) ==
    LET raw == readBlock(ee, base, HeaderSize)
        saved == IF raw[1] = 255 THEN 0
                 ELSE IF raw[1] > maxEntries THEN maxEntries % 256
                 ELSE raw[1]
        next == raw[2] % maxEntries
    IN [savedReports |-> saved, uNextReport |-> next]

loadHeader(ee, base, maxEntries) ==
    LET raw == readBlock(ee, base, HeaderSize)
        saved == IF raw[1] = 255 THEN 0
                 ELSE IF raw[1] > maxEntries THEN maxEntries % 256
                 ELSE raw[1]
        next == IF raw[2] >= maxEntries THEN 0 ELSE raw[2]
    IN [savedReports |-> saved, uNextReport |-> next]

saveHeader(ee, base, h) ==
    writeBlock(ee, base, <<h.savedReports, h.uNextReport>>)

\* slot addresses with the stride of the program counter only
getAddressForReport_ShortStride(base, maxEntries, pc, report) ==
    base + HeaderSize + (IF report < maxEntries THEN report * pc ELSE 0)

getAddressForReport(base, maxEntries, pc, report) ==
    base + HeaderSize + (IF report < maxEntries THEN report * ReportSize(pc) ELSE 0)

\* saveCurrentReport that writes one byte more than the report
saveCurrentReport_Overrun(ee, base, maxEntries, pc, report, reportSlot) ==
    writeBlock(ee, getAddressForReport(base, maxEntries, pc, reportSlot),
               Append(ReportBytes(report), 0))

saveCurrentReport(ee, base, maxEntries, pc, report, reportSlot) ==
    writeBlock(ee, getAddressForReport(base, maxEntries, pc, reportSlot), ReportBytes(report))

\* loadReport without the byte-order fix-up
loadReport_NoFixup(ee, base, maxEntries, pc, report) ==
    LET raw == readBlock(ee, getAddressForReport(base, maxEntries, pc, report), ReportSize(pc))
    IN [auAddress |-> SubSeq(raw, 1, pc), uData |-> SubSeq(raw, pc + 1, pc + UserDataSize)]

loadReport(ee, base, maxEntries, pc, report) ==
    LET raw == readBlock(ee, getAddressForReport(base, maxEntries, pc, report), ReportSize(pc))
        addr == SubSeq(raw, 1, pc)
        fixed == [i \in 1 .. pc |->
                    IF i = 1 THEN addr[pc]
                    ELSE IF i = pc THEN addr[1]
                    ELSE addr[i]]
    IN [auAddress |-> fixed, uData |-> SubSeq(raw, pc + 1, pc + UserDataSize)]

----------------------------------------------------------------------------
(* Facade operations as functions of the storage *)

isFull(ee, base, maxEntries) ==
    loadHeader(ee, base, maxEntries).savedReports >= maxEntries

Line(text, vals) == [text |-> text, vals |-> vals]

\* the lines dump() prints to its destination
dump(ee, base, maxEntries, pc, onlyIfPresent) ==
    LET h == loadHeader(ee, base, maxEntries)
        ReportLine(uReport) ==
            LET report == loadReport(ee, base, maxEntries, pc, uReport)
                \* at most 24 bits, so uAddress * 2 fits the uint32_t
                uAddress == LEValue(report.auAddress)
            IN Line("report", <<uReport, uAddress, uAddress * 2>> \o Digits(report.uData))
    IN IF (~onlyIfPresent) \/ (h.savedReports # 0)
       THEN <<Line("Crash Monitor", <<>>),
              Line("-------------", <<>>),
              Line("Saved reports: ", <<h.savedReports>>),
              Line("Next report: ", <<h.uNextReport>>)>>
            \o [i \in 1 .. h.savedReports |-> ReportLine(i - 1)]
       ELSE <<>>

\* the zeroing loop of clear(): report uReport is loaded and sizeof(report)
\* zero bytes are written starting at the address held in its auAddress
RECURSIVE clearLoop(_, _, _, _, _, _)
clearLoop(ee, base, maxEntries, pc, uReport, savedReports) ==
    IF uReport >= savedReports THEN ee
    ELSE LET report == loadReport(ee, base, maxEntries, pc, uReport)
             uAddress == LEValue(report.auAddress)
             zeroed == writeBlock(ee, uAddress % 65536, [i \in 1 .. ReportSize(pc) |-> 0])
         IN clearLoop(zeroed, base, maxEntries, pc, uReport + 1, savedReports)

\* clear() that forgets to write the header back
clear_KeepHeader(ee, base, maxEntries, pc) ==
    LET h == loadHeader(ee, base, maxEntries)
    IN IF h.savedReports # 0
       THEN clearLoop(ee, base, maxEntries, pc, 0, h.savedReports)
       ELSE ee

\* clear() that zeroes the slots of the saved reports themselves
clear_ZeroesSlots(ee, base, maxEntries, pc) ==
    LET h == loadHeader(ee, base, maxEntries)
        first == base + HeaderSize
        wiped == [a \in Addresses |->
                    IF a >= first /\ a < first + h.savedReports * ReportSize(pc)
                    THEN 0 ELSE ee[a]]
    IN saveHeader(wiped, base, [savedReports |-> 0, uNextReport |-> 0])

clear(ee, base, maxEntries, pc) ==
    LET h == loadHeader(ee, base, maxEntries)
        wiped == IF h.savedReports # 0
                 THEN clearLoop(ee, base, maxEntries, pc, 0, h.savedReports)
                 ELSE ee
    IN saveHeader(wiped, base, [savedReports |-> 0, uNextReport |-> 0])

\* the zero writes of the loop of clear(), in order, from report uReport on:
\* each report is loaded from the storage as the earlier writes left it
RECURSIVE clearLoopWrites(_, _, _, _, _, _)
clearLoopWrites(ee, base, maxEntries, pc, uReport, savedReports) ==
    IF uReport >= savedReports THEN <<>>
    ELSE LET report == loadReport(ee, base, maxEntries, pc, uReport)
             uAddress == LEValue(report.auAddress) % 65536
             zeroed == writeBlock(ee, uAddress, [i \in 1 .. ReportSize(pc) |-> 0])
         IN [i \in 1 .. ReportSize(pc) |-> [addr |-> uAddress + i - 1, byte |-> 0]]
            \o clearLoopWrites(zeroed, base, maxEntries, pc, uReport + 1, savedReports)

\* the storage writes of clear() with the header bytes in the other order
clearWrites_CursorFirst(ee, base, maxEntries, pc) ==
    LET h == loadHeader(ee, base, maxEntries)
    IN clearLoopWrites(ee, base, maxEntries, pc, 0, h.savedReports)
       \o <<[addr |-> base + 1, byte |-> 0], [addr |-> base, byte |-> 0]>>

\* the storage writes of clear(), in order, for the storage ee it starts
\* from: the zeroing loop and then saveHeader of (0, 0), byte by byte
clearWrites(ee, base, maxEntries, pc) ==
    LET h == loadHeader(ee, base, maxEntries)
    IN clearLoopWrites(ee, base, maxEntries, pc, 0, h.savedReports)
       \o <<[addr |-> base, byte |-> 0], [addr |-> base + 1, byte |-> 0]>>

\* the bookkeeping with the wrap test off by one
advanceHeader_LateWrap(h, maxEntries) ==
    LET next == (h.uNextReport + 1) % 256
    IN IF next > maxEntries
       THEN [savedReports |-> h.savedReports, uNextReport |-> 0]
       ELSE [savedReports |-> (h.savedReports + 1) % 256, uNextReport |-> next]

\* the header bookkeeping of watchDogInterruptHandler (8-bit fields)
advanceHeader(h, maxEntries) ==
    LET next == (h.uNextReport + 1) % 256
    IN IF next >= maxEntries
       THEN [savedReports |-> h.savedReports, uNextReport |-> 0]
       ELSE [savedReports |-> (h.savedReports + 1) % 256, uNextReport |-> next]

\* the handler's storage writes with the header ahead of the report
HandlerWrites_HeaderFirst(ee, base, maxEntries, pc, report) ==
    LET h == loadHeader(ee, base, maxEntries)
        slot == getAddressForReport(base, maxEntries, pc, h.uNextReport)
        updated == advanceHeader(h, maxEntries)
        bytes == ReportBytes(report)
        headerBytes == <<updated.savedReports, updated.uNextReport>>
    IN [i \in 1 .. HeaderSize |-> [addr |-> base + i - 1, byte |-> headerBytes[i]]]
       \o [i \in 1 .. Len(bytes) |-> [addr |-> slot + i - 1, byte |-> bytes[i]]]

\* the handler's storage writes with the count ahead of the report
HandlerWrites_CountFirst(ee, base, maxEntries, pc, report) ==
    LET h == loadHeader(ee, base, maxEntries)
        slot == getAddressForReport(base, maxEntries, pc, h.uNextReport)
        updated == advanceHeader(h, maxEntries)
        bytes == ReportBytes(report)
    IN <<[addr |-> base, byte |-> updated.savedReports]>>
       \o [i \in 1 .. Len(bytes) |-> [addr |-> slot + i - 1, byte |-> bytes[i]]]
       \o <<[addr |-> base + 1, byte |-> updated.uNextReport]>>

\* the storage writes of watchDogInterruptHandler, in order, for the storage
\* ee it starts from: saveCurrentReport(header.uNextReport) and then
\* saveHeader(header), each one eeprom_write_byte per byte
HandlerWrites(ee, base, maxEntries, pc, report) ==
    LET h == loadHeader(ee, base, maxEntries)
        slot == getAddressForReport(base, maxEntries, pc, h.uNextReport)
        updated == advanceHeader(h, maxEntries)
        bytes == ReportBytes(report)
        headerBytes == <<updated.savedReports, updated.uNextReport>>
    IN [i \in 1 .. Len(bytes) |-> [addr |-> slot + i - 1, byte |-> bytes[i]]]
       \o [i \in 1 .. HeaderSize |-> [addr |-> base + i - 1, byte |-> headerBytes[i]]]

----------------------------------------------------------------------------
(* The watchdog timer, as the facade drives it *)

WdtOff == [mode |-> "off", period |-> 0, elapsed |-> 0]

\* enableWatchdog(timeout): wdt_enable(timeout), then WDIE is set, so that the
\* timeout raises the WDT interrupt
enableWatchdog(timeout) ==
    [mode |-> "interrupt", period |-> timeout, elapsed |-> 0]

\* disableWatchdog(): wdt_disable()
disableWatchdog == WdtOff

\* iAmAlive() that does not reach the timer
iAmAlive_NoReset(w) == w

\* iAmAlive(): wdt_reset()
iAmAlive(w) == [w EXCEPT !.elapsed = 0]

\* wdt_enable(WDTO_120MS) in the handler: WDIE is not set again, the next
\* timeout resets the MCU
armSecondary == [mode |-> "reset", period |-> SecondaryTicks, elapsed |-> 0]

\* the hooks an application can register
HookKinds == {"returns", "spins"}

\* the timeouts the application passes to enableWatchdog()
Timeouts == 2 .. TimeoutTicks

\* where normal-context code runs: before any expiry, and in the interrupted
\* code once the handler has returned into it
RunPhases == {"run", "resumed"}

----------------------------------------------------------------------------
(* State machine *)

NoHeader == [savedReports |-> 0, uNextReport |-> 0]

ErasedEeprom == [a \in Addresses |-> 255]

\* no capture is in progress
CapIdle == [stage |-> "idle", k |-> 0, before |-> ErasedEeprom]

\* no clear() is in progress
ClrIdle == [stage |-> "idle", k |-> 0, before |-> ErasedEeprom]

LastInit(pc) ==
    [op |-> "begin", stored |-> FALSE, slot |-> 0, report |-> ZeroReport(pc), ret |-> FALSE,
     onlyIfPresent |-> FALSE, out |-> <<>>, savedBefore |-> 0, val |-> U32Bytes(0)]

Init ==
    /\ nMaxEntries \in 1 .. MaxEntries
    /\ nBaseAddress \in BaseAddresses
    /\ pcSize \in PCSizes
    /\ \E s \in HeaderSamples, n \in HeaderSamples :
          /\ eeprom = writeBlock(ErasedEeprom, nBaseAddress, <<s, n>>)
          /\ tracked = (s = 255 /\ n = 255)
    /\ crashReport = ZeroReport(pcSize)
    /\ header = NoHeader
    /\ phase = "run"
    /\ last = LastInit(pcSize)
    /\ nCaptured = 0
    /\ nTotal = 0
    /\ captured = <<>>
    /\ wdt = WdtOff
    /\ userCrashHandler = "NULL"
    /\ tagArg = 0
    /\ quiet = 0
    /\ enabled = FALSE
    /\ cap = CapIdle
    /\ clr = ClrIdle

\* setData(data)
SetData(data) ==
    /\ phase \in RunPhases
    /\ crashReport' = [crashReport EXCEPT !.uData = U32Bytes(data)]
    /\ tagArg' = data
    /\ last' = [last EXCEPT !.op = "setData", !.ret = FALSE, !.out = <<>>,
                            !.onlyIfPresent = FALSE, !.savedBefore = 0,
                            !.val = U32Bytes(0)]
    /\ header' = NoHeader
    /\ UNCHANGED <<cap, clr, eeprom, nBaseAddress, nMaxEntries, pcSize, phase,
                   tracked, nCaptured, nTotal, captured,
                   wdt, userCrashHandler, quiet, enabled>>

\* isFull()
IsFull ==
    /\ phase \in RunPhases
    /\ header' = loadHeader(eeprom, nBaseAddress, nMaxEntries)
    /\ last' = [last EXCEPT !.op = "isFull",
                            !.ret = isFull(eeprom, nBaseAddress, nMaxEntries),
                            !.out = <<>>, !.onlyIfPresent = FALSE, !.savedBefore = 0,
                            !.val = U32Bytes(0)]
    /\ UNCHANGED <<cap, clr, eeprom, nBaseAddress, nMaxEntries, pcSize, crashReport, phase,
                   tracked, nCaptured, nTotal, captured,
                   wdt, userCrashHandler, tagArg, quiet, enabled>>

\* dump() that persists the header it has validated
Dump_SavesHeader(onlyIfPresent) ==
    /\ phase \in RunPhases
    /\ header' = loadHeader(eeprom, nBaseAddress, nMaxEntries)
    /\ eeprom' = saveHeader(eeprom, nBaseAddress, header')
    /\ last' = [last EXCEPT !.op = "dump",
                            !.onlyIfPresent = onlyIfPresent,
                            !.out = dump(eeprom, nBaseAddress, nMaxEntries, pcSize, onlyIfPresent),
                            !.ret = FALSE, !.savedBefore = 0, !.val = U32Bytes(0)]
    /\ UNCHANGED <<cap, clr, nBaseAddress, nMaxEntries, pcSize, crashReport, phase,
                   tracked, nCaptured, nTotal, captured,
                   wdt, userCrashHandler, tagArg, quiet, enabled>>

\* dump(destination, onlyIfPresent)
Dump(onlyIfPresent) ==
    /\ phase \in RunPhases
    /\ header' = loadHeader(eeprom, nBaseAddress, nMaxEntries)
    /\ last' = [last EXCEPT !.op = "dump",
                            !.onlyIfPresent = onlyIfPresent,
                            !.out = dump(eeprom, nBaseAddress, nMaxEntries, pcSize, onlyIfPresent),
                            !.ret = FALSE, !.savedBefore = 0, !.val = U32Bytes(0)]
    /\ UNCHANGED <<cap, clr, eeprom, nBaseAddress, nMaxEntries, pcSize, crashReport, phase,
                   tracked, nCaptured, nTotal, captured,
                   wdt, userCrashHandler, tagArg, quiet, enabled>>

\* clear()
Clear ==
    /\ phase \in RunPhases
    /\ eeprom' = clear(eeprom, nBaseAddress, nMaxEntries, pcSize)
    /\ header' = [savedReports |-> 0, uNextReport |-> 0]
    /\ last' = [last EXCEPT !.op = "clear",
                            !.stored = FALSE,
                            !.slot = 0,
                            !.report = ZeroReport(pcSize),
                            !.savedBefore =
                                loadHeader(eeprom, nBaseAddress, nMaxEntries).savedReports,
                            !.ret = FALSE, !.out = <<>>, !.onlyIfPresent = FALSE,
                            !.val = U32Bytes(0)]
    /\ tracked' = TRUE
    /\ nCaptured' = 0
    /\ captured' = <<>>
    /\ UNCHANGED <<cap, clr, nBaseAddress, nMaxEntries, pcSize, crashReport, phase, nTotal,
                   wdt, userCrashHandler, tagArg, quiet, enabled>>

\* ISR(WDT_vect) -> watchDogInterruptHandler(upStack), with the interrupted
\* program counter pcWord on the stack: the report and the header are stored,
\* the secondary watchdog is armed, and the handler calls the hook or waits
Capture(pcWord) ==
    /\ phase \in RunPhases
    /\ nTotal < CaptureLimit(nMaxEntries)
    /\ LET h == loadHeader(eeprom, nBaseAddress, nMaxEntries)
           report == [crashReport EXCEPT !.auAddress = StackBytes(pcWord, pcSize)]
           stored == saveCurrentReport(eeprom, nBaseAddress, nMaxEntries, pcSize,
                                       report, h.uNextReport)
           updated == advanceHeader(h, nMaxEntries)
       IN /\ crashReport' = report
          /\ eeprom' = saveHeader(stored, nBaseAddress, updated)
          /\ header' = updated
          /\ last' = [last EXCEPT !.op = "capture",
                                  !.stored = TRUE,
                                  !.slot = h.uNextReport,
                                  !.report = report,
                                  !.ret = FALSE, !.out = <<>>,
                                  !.onlyIfPresent = FALSE, !.savedBefore = 0,
                                  !.val = U32Bytes(0)]
          /\ captured' = Append(captured, report)
    /\ nCaptured' = nCaptured + 1
    /\ nTotal' = nTotal + 1
    /\ wdt' = armSecondary
    /\ quiet' = 0
    /\ enabled' = FALSE
    /\ phase' = "handler"
    /\ UNCHANGED <<cap, clr, nBaseAddress, nMaxEntries, pcSize, tracked, userCrashHandler, tagArg>>

\* a hardware reset: the statics are initialised again and setup() calls
\* begin() with the application's parameters
Reboot ==
    /\ phase' = "run"
    /\ crashReport' = ZeroReport(pcSize)
    /\ last' = [last EXCEPT !.op = "begin", !.val = U32Bytes(0)]
    /\ header' = NoHeader
    /\ wdt' = WdtOff
    /\ userCrashHandler' = "NULL"
    /\ tagArg' = 0
    /\ quiet' = 0
    /\ enabled' = FALSE
    /\ UNCHANGED <<eeprom, nBaseAddress, nMaxEntries, pcSize,
                   tracked, nCaptured, nTotal, captured>>

\* the secondary watchdog resets the MCU while the handler waits
Reset ==
    /\ phase = "handler"
    /\ cap.stage \in {"idle", "hook"}
    /\ Reboot
    /\ cap' = CapIdle
    /\ clr' = ClrIdle

\* getData()
GetData ==
    /\ phase \in RunPhases
    /\ last' = [last EXCEPT !.op = "getData", !.val = crashReport.uData,
                            !.ret = FALSE, !.out = <<>>,
                            !.onlyIfPresent = FALSE, !.savedBefore = 0]
    /\ header' = NoHeader
    /\ UNCHANGED <<cap, clr, eeprom, nBaseAddress, nMaxEntries, pcSize, crashReport, phase,
                   tracked, nCaptured, nTotal, captured,
                   wdt, userCrashHandler, tagArg, quiet, enabled>>

\* the record of a facade call that returns nothing and prints nothing
Called(op) ==
    [last EXCEPT !.op = op, !.ret = FALSE, !.out = <<>>, !.onlyIfPresent = FALSE,
                 !.savedBefore = 0, !.val = U32Bytes(0)]

\* setUserCrashHandler(onUserCrashEvent)
SetUserCrashHandler(onUserCrashEvent) ==
    /\ phase \in RunPhases
    /\ userCrashHandler' = onUserCrashEvent
    /\ last' = Called("setUserCrashHandler")
    /\ header' = NoHeader
    /\ UNCHANGED <<cap, clr, eeprom, nBaseAddress, nMaxEntries, pcSize, crashReport, phase,
                   tracked, nCaptured, nTotal, captured, wdt, tagArg, quiet, enabled>>

\* enableWatchdog(timeout)
EnableWatchdog(timeout) ==
    /\ phase \in RunPhases
    /\ wdt' = enableWatchdog(timeout)
    /\ enabled' = TRUE
    /\ quiet' = 0
    /\ last' = Called("enableWatchdog")
    /\ header' = NoHeader
    /\ UNCHANGED <<cap, clr, eeprom, nBaseAddress, nMaxEntries, pcSize, crashReport, phase,
                   tracked, nCaptured, nTotal, captured, userCrashHandler, tagArg>>

\* disableWatchdog()
DisableWatchdog ==
    /\ phase \in RunPhases
    /\ wdt' = disableWatchdog
    /\ enabled' = FALSE
    /\ quiet' = 0
    /\ last' = Called("disableWatchdog")
    /\ header' = NoHeader
    /\ UNCHANGED <<cap, clr, eeprom, nBaseAddress, nMaxEntries, pcSize, crashReport, phase,
                   tracked, nCaptured, nTotal, captured, userCrashHandler, tagArg>>

\* iAmAlive()
IAmAlive ==
    /\ phase \in RunPhases
    /\ wdt' = iAmAlive(wdt)
    /\ quiet' = 0
    /\ last' = Called("iAmAlive")
    /\ header' = NoHeader
    /\ UNCHANGED <<cap, clr, eeprom, nBaseAddress, nMaxEntries, pcSize, crashReport, phase,
                   tracked, nCaptured, nTotal, captured, userCrashHandler, tagArg,
                   enabled>>

\* one tick of the watchdog oscillator that does not complete the period
Tick ==
    /\ wdt.mode # "off"
    /\ wdt.elapsed + 1 < wdt.period
    /\ wdt' = [wdt EXCEPT !.elapsed = wdt.elapsed + 1]
    /\ quiet' = quiet + 1
    /\ UNCHANGED <<cap, clr, eeprom, nBaseAddress, nMaxEntries, pcSize, crashReport, header,
                   phase, last, tracked, nCaptured, nTotal, captured,
                   userCrashHandler, tagArg, enabled>>

\* the tick that completes the period with WDIE set: WDT_vect is raised
WdtInterrupt(pcWord) ==
    /\ wdt.mode = "interrupt"
    /\ wdt.elapsed + 1 = wdt.period
    /\ Capture(pcWord)

\* the tick that completes the period without WDIE: the MCU is reset
WdtReset ==
    /\ wdt.mode = "reset"
    /\ wdt.elapsed + 1 = wdt.period
    /\ Reboot
    /\ cap' = CapIdle
    /\ clr' = ClrIdle

\* the user hook returns: watchDogInterruptHandler and then the ISR return
\* into the interrupted code
HookReturn ==
    /\ phase = "handler"
    /\ userCrashHandler = "returns"
    /\ phase' = "resumed"
    /\ last' = Called("hookReturn")
    /\ UNCHANGED <<cap, clr, eeprom, nBaseAddress, nMaxEntries, pcSize, crashReport, header,
                   tracked, nCaptured, nTotal, captured,
                   wdt, userCrashHandler, tagArg, quiet, enabled>>

\* the handler up to its first storage write: loadHeader and the memcpy of
\* the interrupted program counter into _crashReport
CaptureStart(pcWord) ==
    /\ phase \in RunPhases
    /\ cap.stage \in {"idle", "cut"}
    /\ nTotal < CaptureLimit(nMaxEntries)
    /\ LET h == loadHeader(eeprom, nBaseAddress, nMaxEntries)
           report == [crashReport EXCEPT !.auAddress = StackBytes(pcWord, pcSize)]
       IN /\ crashReport' = report
          /\ header' = h
          /\ last' = [last EXCEPT !.op = "capture",
                                  !.stored = FALSE,
                                  !.slot = h.uNextReport,
                                  !.report = report,
                                  !.ret = FALSE, !.out = <<>>,
                                  !.onlyIfPresent = FALSE, !.savedBefore = 0,
                                  !.val = U32Bytes(0)]
          /\ captured' = Append(captured, report)
    /\ nCaptured' = nCaptured + 1
    /\ nTotal' = nTotal + 1
    /\ cap' = [stage |-> "write", k |-> 0, before |-> eeprom]
    /\ phase' = "handler"
    /\ UNCHANGED <<clr, eeprom, nBaseAddress, nMaxEntries, pcSize, tracked,
                   wdt, userCrashHandler, tagArg, quiet, enabled>>

\* the next eeprom_write_byte of the handler
WriteByte ==
    /\ cap.stage = "write"
    /\ LET writes == HandlerWrites(cap.before, nBaseAddress, nMaxEntries, pcSize,
                                   crashReport)
           w == writes[cap.k + 1]
       IN /\ eeprom' = [eeprom EXCEPT ![w.addr % EepromSize] = w.byte]
          /\ cap' = [cap EXCEPT !.k = cap.k + 1,
                                !.stage = IF cap.k + 1 = Len(writes)
                                          THEN "arm" ELSE "write"]
          /\ header' = IF cap.k + 1 = ReportSize(pcSize)
                       THEN advanceHeader(header, nMaxEntries)
                       ELSE header
    /\ UNCHANGED <<clr, nBaseAddress, nMaxEntries, pcSize, crashReport, phase, last,
                   tracked, nCaptured, nTotal, captured,
                   wdt, userCrashHandler, tagArg, quiet, enabled>>

\* wdt_enable(WDTO_120MS), then the hook is called or the wait is entered
ArmSecondary ==
    /\ cap.stage = "arm"
    /\ wdt' = armSecondary
    /\ quiet' = 0
    /\ enabled' = FALSE
    /\ cap' = [cap EXCEPT !.stage = "hook"]
    /\ UNCHANGED <<clr, eeprom, nBaseAddress, nMaxEntries, pcSize, crashReport, header,
                   phase, last, tracked, nCaptured, nTotal, captured,
                   userCrashHandler, tagArg>>

\* power is lost between two storage writes of the handler, and comes back
PowerLoss ==
    /\ cap.stage = "write"
    /\ Reboot
    /\ cap' = [cap EXCEPT !.stage = "cut"]
    /\ clr' = ClrIdle

\* clear() up to its first storage write: loadHeader
ClearStart ==
    /\ phase \in RunPhases
    /\ clr.stage = "idle"
    /\ clr' = [stage |-> "write", k |-> 0, before |-> eeprom]
    /\ header' = loadHeader(eeprom, nBaseAddress, nMaxEntries)
    /\ last' = [last EXCEPT !.op = "clearStart",
                            !.stored = FALSE,
                            !.slot = 0,
                            !.report = ZeroReport(pcSize),
                            !.savedBefore =
                                loadHeader(eeprom, nBaseAddress, nMaxEntries).savedReports,
                            !.ret = FALSE, !.out = <<>>, !.onlyIfPresent = FALSE,
                            !.val = U32Bytes(0)]
    /\ UNCHANGED <<cap, eeprom, nBaseAddress, nMaxEntries, pcSize, crashReport, phase,
                   tracked, nCaptured, nTotal, captured,
                   wdt, userCrashHandler, tagArg, quiet, enabled>>

\* the next eeprom_write_byte of clear(); after the last one clear() returns
ClearWrite ==
    /\ phase \in RunPhases
    /\ clr.stage = "write"
    /\ LET writes == clearWrites(clr.before, nBaseAddress, nMaxEntries, pcSize)
           w == writes[clr.k + 1]
           done == clr.k + 1 = Len(writes)
       IN /\ eeprom' = [eeprom EXCEPT ![w.addr % EepromSize] = w.byte]
          /\ clr' = IF done THEN ClrIdle ELSE [clr EXCEPT !.k = clr.k + 1]
          /\ header' = IF done THEN NoHeader ELSE header
          /\ last' = IF done THEN [last EXCEPT !.op = "clear"] ELSE last
          /\ tracked' = (done \/ tracked)
          /\ nCaptured' = IF done THEN 0 ELSE nCaptured
          /\ captured' = IF done THEN <<>> ELSE captured
    /\ UNCHANGED <<cap, nBaseAddress, nMaxEntries, pcSize, crashReport, phase, nTotal,
                   wdt, userCrashHandler, tagArg, quiet, enabled>>

Next ==
    \/ \E data \in UserTags : SetData(data)
    \/ IsFull
    \/ \E onlyIfPresent \in BOOLEAN : Dump(onlyIfPresent)
    \/ Clear
    \/ \E pcWord \in PCWords(pcSize) : Capture(pcWord)
    \/ Reset

Spec == Init /\ [][Next]_vars

TypeOK ==
    /\ eeprom \in [Addresses -> Byte]
    /\ nMaxEntries >= 1
    /\ pcSize \in PCSizes
    /\ phase \in {"run", "handler", "resumed"}
    /\ wdt.mode \in {"off", "interrupt", "reset"}
    /\ userCrashHandler \in {"NULL"} \cup HookKinds
    /\ header.savedReports \in Byte /\ header.uNextReport \in Byte
    /\ clr.stage \in {"idle", "write"}
    /\ Len(captured) = nCaptured

----------------------------------------------------------------------------
(* The end-to-end scenario: captures at 0x100, 0x200, 0x300, 0x400 into     *)
(* erased storage, with the user data left at zero                          *)

InitScenario ==
    /\ Init
    /\ eeprom = ErasedEeprom

NextScenario ==
    \/ IsFull
    \/ \E onlyIfPresent \in BOOLEAN : Dump(onlyIfPresent)
    \/ Clear
    \/ \E pcWord \in ScenarioWords : Capture(pcWord)
    \/ Reset

SpecScenario == InitScenario /\ [][NextScenario]_vars

(* loadHeader over every pair of raw header bytes, also for capacities at  *)
(* and beyond the range of the 8-bit fields                                 *)

InitHeader ==
    /\ nMaxEntries \in (1 .. MaxEntries) \cup WideEntries
    /\ nBaseAddress \in BaseAddresses
    /\ pcSize = 2
    /\ \E s \in Byte, n \in Byte :
          eeprom = writeBlock(ErasedEeprom, nBaseAddress, <<s, n>>)
    /\ tracked = FALSE
    /\ crashReport = ZeroReport(pcSize)
    /\ header = NoHeader
    /\ phase = "run"
    /\ last = LastInit(pcSize)
    /\ nCaptured = 0
    /\ nTotal = 0
    /\ captured = <<>>
    /\ wdt = WdtOff
    /\ userCrashHandler = "NULL"
    /\ tagArg = 0
    /\ quiet = 0
    /\ enabled = FALSE
    /\ cap = CapIdle
    /\ clr = ClrIdle

NextHeader == IsFull

SpecHeader == InitHeader /\ [][NextHeader]_vars

(* clear() one storage write at a time, with the watchdog expiring between *)
(* two of its writes; the MCU is reset after the capture                    *)

InitRace ==
    /\ Init
    /\ eeprom = ErasedEeprom
    /\ pcSize = 2

NextRace ==
    \/ ClearStart
    \/ ClearWrite
    \/ \E pcWord \in PCWords(pcSize) : Capture(pcWord)
    \/ Reset

SpecRace == InitRace /\ [][NextRace]_vars

(* Captures at small capacities and at the capacities next to the range of *)
(* the 8-bit header fields, from stored counts at both ends of that range  *)

WideCounts == {0, 1, 253, 254, 255}

InitWide ==
    /\ nMaxEntries \in (1 .. MaxEntries) \cup {254, 255}
    /\ nBaseAddress \in BaseAddresses
    /\ pcSize = 2
    /\ \E s \in WideCounts, n \in {0, 255} :
          /\ eeprom = writeBlock(ErasedEeprom, nBaseAddress, <<s, n>>)
          /\ tracked = (s = 255 /\ n = 255)
    /\ crashReport = ZeroReport(pcSize)
    /\ header = NoHeader
    /\ phase = "run"
    /\ last = LastInit(pcSize)
    /\ nCaptured = 0
    /\ nTotal = 0
    /\ captured = <<>>
    /\ wdt = WdtOff
    /\ userCrashHandler = "NULL"
    /\ tagArg = 0
    /\ quiet = 0
    /\ enabled = FALSE
    /\ cap = CapIdle
    /\ clr = ClrIdle

NextWide ==
    \/ \E data \in UserTags : SetData(data)
    \/ \E pcWord \in PCWords(pcSize) : Capture(pcWord)
    \/ Reset

SpecWide == InitWide /\ [][NextWide]_vars

(* dump() with a hook registered and user data set, over valid and corrupt *)
(* headers                                                                  *)

InitFrame ==
    /\ Init
    /\ nMaxEntries = 2
    /\ pcSize = 2

NextFrame ==
    \/ \E h \in {"NULL"} \cup HookKinds : SetUserCrashHandler(h)
    \/ \E data \in UserTags : SetData(data)
    \/ \E onlyIfPresent \in BOOLEAN : Dump(onlyIfPresent)
    \/ \E pcWord \in PCWords(pcSize) : Capture(pcWord)
    \/ Reset

SpecFrame == InitFrame /\ [][NextFrame]_vars

(* The handler one storage write at a time, into erased storage, with      *)
(* power cuts between the writes                                            *)

InitBytes ==
    /\ Init
    /\ eeprom = ErasedEeprom
    /\ nMaxEntries = 2
    /\ pcSize = 2

NextBytes ==
    \/ \E data \in UserTags : SetData(data)
    \/ \E pcWord \in PCWords(pcSize) : CaptureStart(pcWord)
    \/ WriteByte
    \/ ArmSecondary
    \/ Reset
    \/ PowerLoss

SpecBytes == InitBytes /\ [][NextBytes]_vars

(* The application with the watchdog running: captures happen only when    *)
(* the timer expires, resets only when the secondary period expires        *)

InitWdt ==
    /\ Init
    /\ eeprom = ErasedEeprom
    /\ nMaxEntries = 2
    /\ pcSize = 2

NextWdt ==
    \/ \E h \in {"NULL"} \cup HookKinds : SetUserCrashHandler(h)
    \/ \E timeout \in Timeouts : EnableWatchdog(timeout)
    \/ DisableWatchdog
    \/ IAmAlive
    \/ \E data \in UserTags : SetData(data)
    \/ GetData
    \/ \E onlyIfPresent \in BOOLEAN : Dump(onlyIfPresent)
    \/ Tick
    \/ \E pcWord \in PCWords(pcSize) : WdtInterrupt(pcWord)
    \/ WdtReset
    \/ HookReturn

SpecWdt == InitWdt /\ [][NextWdt]_vars

\* time passes: a pending tick, interrupt or reset is not postponed for ever
FairWdt ==
    /\ WF_vars(Tick)
    /\ WF_vars(\E pcWord \in PCWords(pcSize) : WdtInterrupt(pcWord))
    /\ WF_vars(WdtReset)

SpecWdtFair == SpecWdt /\ FairWdt

----------------------------------------------------------------------------
(* Properties *)

\* the header as loadHeader validates it from the current storage
ValidHeader == loadHeader(eeprom, nBaseAddress, nMaxEntries)

\* the two header bytes as they lie in storage
RawHeader == <<eeprom[nBaseAddress], eeprom[nBaseAddress + 1]>>

\* the bytes of report slot i: reportSize bytes at base + headerSize + i * reportSize
SlotBytes(i) ==
    [b \in 1 .. ReportSize(pcSize) |->
        eeprom[nBaseAddress + HeaderSize + i * ReportSize(pcSize) + b - 1]]

\* the slot the k-th capture since empty storage goes to, in circular order
SlotOfCapture(k) == (k - 1) % nMaxEntries

\* C1: from empty storage and with no clear() in between, once more than
\* maxEntries captures have happened the validated savedReports equals
\* maxEntries and the slots hold the most recent maxEntries captures, each in
\* the slot its circular position gives.
C1_FullAfterWrap ==
    (tracked /\ nCaptured > nMaxEntries) =>
        /\ ValidHeader.savedReports = nMaxEntries
        /\ \A k \in (nCaptured - nMaxEntries + 1) .. nCaptured :
              SlotBytes(SlotOfCapture(k)) = ReportBytes(captured[k])

\* C2: from empty storage, isFull() returns TRUE exactly when at least
\* maxEntries captures have happened since.
C2_IsFullAtCapacity ==
    (tracked /\ last.op = "isFull") => (last.ret <=> (nCaptured >= nMaxEntries))

ScenarioReport(k) ==
    [auAddress |-> StackBytes(256 * k, pcSize), uData |-> U32Bytes(0)]

ScenarioRun ==
    /\ tracked
    /\ nMaxEntries = 3
    /\ captured = [k \in 1 .. 4 |-> ScenarioReport(k)]

\* C3: from empty storage the k-th capture is written to slot (k-1) mod
\* maxEntries and leaves nextReport = k mod maxEntries; with maxEntries = 3 and
\* captures at 0x100, 0x200, 0x300, 0x400 the stored header is (3, 1) and
\* slots 0, 1, 2 hold the reports of 0x400, 0x200, 0x300.
C3_CircularCursor ==
    /\ tracked =>
          /\ ValidHeader.uNextReport = nCaptured % nMaxEntries
          /\ (last.op = "capture" =>
                 /\ last.slot = SlotOfCapture(nCaptured)
                 /\ last.report = captured[nCaptured])
          /\ \A k \in 1 .. nCaptured :
                (k + nMaxEntries > nCaptured) =>
                    SlotBytes(SlotOfCapture(k)) = ReportBytes(captured[k])
    /\ ScenarioRun =>
          /\ RawHeader = <<3, 1>>
          /\ ValidHeader = [savedReports |-> 3, uNextReport |-> 1]
          /\ SlotBytes(0) = ReportBytes(ScenarioReport(4))
          /\ SlotBytes(1) = ReportBytes(ScenarioReport(2))
          /\ SlotBytes(2) = ReportBytes(ScenarioReport(3))

C3_Witness == ScenarioRun /\ pcSize = 2 /\ phase = "handler"

Min(a, b) == IF a <= b THEN a ELSE b

\* C4: whatever the two raw header bytes, the header loadHeader returns has
\* 0 <= savedReports <= maxEntries and 0 <= nextReport < maxEntries.
C4_HeaderInRange ==
    last.op = "isFull" =>
        /\ header.savedReports \in 0 .. nMaxEntries
        /\ header.uNextReport \in 0 .. (nMaxEntries - 1)

C4_Witness ==
    /\ last.op = "isFull"
    /\ RawHeader[1] > nMaxEntries /\ RawHeader[1] # 255
    /\ RawHeader[2] >= nMaxEntries

\* C5: a raw savedReports byte of 0xFF loads as savedReports = 0.
C5_SentinelIsZero ==
    (last.op = "isFull" /\ RawHeader[1] = 255) => header.savedReports = 0

C5_Witness ==
    /\ last.op = "isFull"
    /\ RawHeader[1] = 255
    /\ nMaxEntries = MaxEntries

\* C6: a raw savedReports byte b other than 0xFF loads as min(b, maxEntries).
C6_ClampToCapacity ==
    (last.op = "isFull" /\ RawHeader[1] # 255) =>
        header.savedReports = Min(RawHeader[1], nMaxEntries)

C6_Witness ==
    /\ last.op = "isFull"
    /\ RawHeader[1] # 255
    /\ RawHeader[1] > nMaxEntries
    /\ header.savedReports = nMaxEntries

\* C7: a raw nextReport byte n loads as 0 when n >= maxEntries and as n
\* otherwise.
C7_CursorResetToZero ==
    last.op = "isFull" =>
        header.uNextReport = (IF RawHeader[2] >= nMaxEntries THEN 0 ELSE RawHeader[2])

C7_Witness ==
    /\ last.op = "isFull"
    /\ RawHeader[2] > nMaxEntries
    /\ RawHeader[2] % nMaxEntries # 0
    /\ header.uNextReport = 0

\* C8: after clear() the stored header is (0, 0), isFull() is false and
\* dump with onlyIfPresent = TRUE prints nothing.
C8_ClearResetsHeader ==
    /\ last.op = "clear" =>
          /\ RawHeader = <<0, 0>>
          /\ ~isFull(eeprom, nBaseAddress, nMaxEntries)
          /\ dump(eeprom, nBaseAddress, nMaxEntries, pcSize, TRUE) = <<>>
    /\ (tracked /\ nCaptured = 0 /\ last.op = "isFull") => ~last.ret
    /\ (tracked /\ nCaptured = 0 /\ last.op = "dump" /\ last.onlyIfPresent) =>
          last.out = <<>>

C8_Witness ==
    /\ last.op = "clear"
    /\ last.savedBefore = nMaxEntries
    /\ nTotal > nMaxEntries

\* C9: after clear() every byte of every slot below the savedReports that was
\* valid before the call is zero.
C9_ClearZeroesSlots ==
    last.op = "clear" =>
        \A i \in 0 .. (last.savedBefore - 1) :
            \A b \in 1 .. ReportSize(pcSize) : SlotBytes(i)[b] = 0

\* the location bytes with the first and the last one exchanged
EndsSwapped(bytes) ==
    IF Len(bytes) = 2 THEN <<bytes[2], bytes[1]>>
    ELSE <<bytes[3], bytes[2], bytes[1]>>

\* C10: a report saved to slot i loads back from slot i with the same userTag
\* and with the first and last location bytes swapped, until the next write;
\* loading (dump) leaves the stored bytes as they are.
C10_SaveLoadRoundTrip ==
    /\ [](last.stored =>
            loadReport(eeprom, nBaseAddress, nMaxEntries, pcSize, last.slot)
                = [auAddress |-> EndsSwapped(last.report.auAddress),
                   uData |-> last.report.uData])
    /\ [][last'.op = "dump" => eeprom' = eeprom]_vars

C10_Witness ==
    /\ last.op = "dump"
    /\ last.stored
    /\ last.slot = nMaxEntries - 1
    /\ pcSize = 3
    /\ last.report.uData # U32Bytes(0)
    /\ Len(last.out) > 4 + last.slot

\* C11: after every watchdog expiry the handler arms the secondary watchdog
\* (reset mode) and the system eventually reaches a hardware reset, whatever
\* hook is registered: none, one that returns, one that never returns. Runs
\* in which the watchdog is disabled or re-enabled after the expiry count
\* as reaching the goal.
C11_ReachesReset ==
    /\ [](last.op = "capture" => wdt = armSecondary \/ wdt.mode = "reset")
    /\ ((phase = "handler") ~> (last.op = "begin" \/ wdt.mode # "reset"))

\* the facade calls of normal-context code
NormalOps ==
    {"setData", "getData", "isFull", "dump", "clear", "iAmAlive",
     "enableWatchdog", "disableWatchdog", "setUserCrashHandler"}

\* C12: the capture routine never returns into the interrupted code: once a
\* capture has started, no normal-context call executes before the reset.
C12_NeverReturns ==
    [][/\ phase' # "resumed"
       /\ (phase # "run" => last'.op \notin NormalOps)]_vars

\* C13: while the watchdog is enabled (enableWatchdog() called, and neither
\* disableWatchdog() nor an expiry since), a capture fires exactly when a full
\* timeout period passes with no iAmAlive(): the timer runs in interrupt mode
\* and has counted the ticks since the last enableWatchdog() / iAmAlive(); a
\* capture happens only on the tick that completes the period, and that tick
\* cannot pass without the capture. With the watchdog not enabled (never
\* enabled, or disabled by disableWatchdog()) no capture fires.
C13_CaptureIffQuietPeriod ==
    /\ [](enabled => /\ wdt.mode = "interrupt"
                     /\ wdt.elapsed = quiet
                     /\ quiet < wdt.period)
    /\ [](~enabled => wdt.mode # "interrupt")
    /\ [][nTotal' # nTotal => enabled /\ quiet + 1 = wdt.period]_vars
    /\ [][(enabled /\ quiet + 1 = wdt.period /\ quiet' # quiet)
            => \/ nTotal' = nTotal + 1
               \/ last'.op \in {"iAmAlive", "enableWatchdog", "disableWatchdog"}]_vars
    /\ [][last'.op = "disableWatchdog" => ~enabled' /\ wdt'.mode = "off"]_vars

\* a second expiry has been captured, after a reset and a new enableWatchdog()
C13_Witness ==
    /\ last.op = "capture"
    /\ phase = "handler"
    /\ nTotal = 2

\* C14: the user data stored by a capture is the argument of the last
\* setData() before it, or 0 if there was none since begin(); getData()
\* returns that value at any time.
C14_UserTag ==
    /\ crashReport.uData = U32Bytes(tagArg)
    /\ (last.op = "getData" => last.val = U32Bytes(tagArg))
    /\ (last.op = "capture" =>
           SubSeq(SlotBytes(last.slot), pcSize + 1, pcSize + UserDataSize)
               = U32Bytes(tagArg))

\* a capture has stored a tag set by setData()
C14_Witness ==
    /\ last.op = "capture"
    /\ tagArg \in UserTags
    /\ nTotal = 1

\* C15: dump() is a pure read: for both values of onlyIfPresent, every
\* storage byte, the in-memory user data and the registered hook are the same
\* after dump() as before it.
C15_DumpPureRead ==
    [][last'.op = "dump" =>
          /\ eeprom' = eeprom
          /\ crashReport' = crashReport
          /\ userCrashHandler' = userCrashHandler]_vars

\* dump() has printed a stored report while a hook and user data were set
C15_Witness ==
    /\ last.op = "dump"
    /\ Len(last.out) > 4
    /\ userCrashHandler \in HookKinds
    /\ tagArg \in UserTags
    /\ RawHeader[1] > nMaxEntries

\* the storage addresses of the report region
SlotRegion ==
    (nBaseAddress + HeaderSize) ..
        (nBaseAddress + HeaderSize + nMaxEntries * ReportSize(pcSize) - 1)

\* the addresses of slot i
SlotAddresses(i) ==
    {nBaseAddress + HeaderSize + i * ReportSize(pcSize) + b - 1 :
        b \in 1 .. ReportSize(pcSize)}

\* C16: for every capacity and any raw storage content, the slot index a
\* capture writes, and the indices dump() and clear() load, are below
\* maxEntries, and each access is at base + headerSize + index * reportSize,
\* inside the report region.
C16_SlotsInRegion ==
    /\ (last.op = "capture" =>
           /\ last.slot < nMaxEntries
           /\ SlotAddresses(last.slot) \subseteq SlotRegion
           /\ SlotBytes(last.slot) = ReportBytes(last.report))
    /\ (last.op = "dump" =>
           \A i \in 1 .. (Len(last.out) - 4) :
              /\ last.out[4 + i].vals[1] = i - 1
              /\ i - 1 < nMaxEntries
              /\ SlotAddresses(i - 1) \subseteq SlotRegion
              /\ SubSeq(last.out[4 + i].vals, 4, 3 + UserDataSize)
                    = Digits(SubSeq(SlotBytes(i - 1), pcSize + 1, pcSize + UserDataSize)))
    /\ (last.op = "clear" =>
           \A i \in 1 .. last.savedBefore :
              /\ i - 1 < nMaxEntries
              /\ SlotAddresses(i - 1) \subseteq SlotRegion)

\* a capture into the last slot, in storage that did not start erased
C16_Witness ==
    /\ last.op = "capture"
    /\ last.slot = nMaxEntries - 1
    /\ nMaxEntries > 1
    /\ ~tracked

\* C17: every header persisted by a capture has its savedReports byte at
\* most maxEntries and its nextReport byte below maxEntries.
C17_PersistedHeaderInRange ==
    last.op = "capture" =>
        /\ RawHeader[1] <= nMaxEntries
        /\ RawHeader[2] < nMaxEntries

\* the storage after sizeof(report) zero bytes were written from the address
\* that the location bytes stored in slot i spell, ends exchanged, low byte first
ZeroedAtLocation(ee, i) ==
    LET slot == nBaseAddress + HeaderSize + i * ReportSize(pcSize)
        location == EndsSwapped([k \in 1 .. pcSize |-> ee[slot + k - 1]])
        target == LEValue(location) % 65536
    IN [a \in Addresses |->
          IF \E b \in 0 .. (ReportSize(pcSize) - 1) : (target + b) % EepromSize = a
          THEN 0 ELSE ee[a]]

RECURSIVE ZeroedUpTo(_, _)
ZeroedUpTo(ee, n) ==
    IF n = 0 THEN ee ELSE ZeroedAtLocation(ZeroedUpTo(ee, n - 1), n - 1)

Complete == {ReportBytes(captured[j]) : j \in 1 .. Len(captured)}

\* the bytes slot i held when the capture in progress (or cut) started
SlotBytesBefore(i) ==
    [b \in 1 .. ReportSize(pcSize) |->
        cap.before[nBaseAddress + HeaderSize + i * ReportSize(pcSize) + b - 1]]

\* C18 (as stated): when a capture is cut off between two storage byte
\* writes, every slot below the validated savedReports afterwards holds a
\* complete report of a single capture.
C18_NoTornSlot ==
    cap.stage = "cut" =>
        \A i \in 0 .. (ValidHeader.savedReports - 1) : SlotBytes(i) \in Complete

\* C18 (amended): a capture cut off between two storage byte writes leaves
\* the storage it started from with a prefix of its writes applied: the slot
\* at the validated nextReport holds the first bytes of the new report and
\* otherwise what it held before, the savedReports byte is the old or the
\* updated one (updated only once the report is complete), the nextReport
\* byte is the old one, and no other byte has changed. So a slot below the
\* validated savedReports can be torn, or never written.
C18_CutLeavesPrefix ==
    cap.stage = "cut" =>
        LET loaded == loadHeader(cap.before, nBaseAddress, nMaxEntries)
            written == loaded.uNextReport
            updated == advanceHeader(loaded, nMaxEntries)
            new == ReportBytes(last.report)
        IN /\ \A a \in Addresses :
                 \/ a \in SlotAddresses(written)
                 \/ a \in {nBaseAddress, nBaseAddress + 1}
                 \/ eeprom[a] = cap.before[a]
           /\ \E j \in 0 .. ReportSize(pcSize) :
                 \A b \in 1 .. ReportSize(pcSize) :
                    SlotBytes(written)[b] =
                        IF b <= j THEN new[b] ELSE SlotBytesBefore(written)[b]
           /\ RawHeader[2] = cap.before[nBaseAddress + 1]
           /\ RawHeader[1] \in {cap.before[nBaseAddress], updated.savedReports}
           /\ (RawHeader[1] # cap.before[nBaseAddress] => SlotBytes(written) = new)
           /\ \A i \in 0 .. (nMaxEntries - 1) :
                 i # written => SlotBytes(i) = SlotBytesBefore(i)

\* a cut has left a slot below the validated savedReports torn
C18_Witness ==
    /\ cap.stage = "cut"
    /\ \E i \in 0 .. (ValidHeader.savedReports - 1) : SlotBytes(i) \notin Complete

\* the storage once the handler has done its first k writes: the report
\* bytes into slot nextReport of the validated header, then the header bytes
StorageAfterWrites(k) ==
    LET loaded == loadHeader(cap.before, nBaseAddress, nMaxEntries)
        slot == nBaseAddress + HeaderSize + loaded.uNextReport * ReportSize(pcSize)
        updated == advanceHeader(loaded, nMaxEntries)
        report == ReportBytes(last.report)
    IN [a \in Addresses |->
          IF a >= slot /\ a < slot + Min(k, ReportSize(pcSize))
          THEN report[a - slot + 1]
          ELSE IF a = nBaseAddress /\ k > ReportSize(pcSize)
          THEN updated.savedReports
          ELSE IF a = nBaseAddress + 1 /\ k > ReportSize(pcSize) + 1
          THEN updated.uNextReport
          ELSE cap.before[a]]

\* C19: within one capture the header is loaded and validated, then all
\* bytes of the report are written to slot nextReport, then the updated
\* header, and only then is the secondary watchdog armed and the hook called
\* or the wait entered; the stored header is unchanged until the report
\* write has finished.
C19_CaptureOrder ==
    /\ [](cap.stage \in {"write", "arm", "hook"} =>
            /\ eeprom = StorageAfterWrites(cap.k)
            /\ last.slot = loadHeader(cap.before, nBaseAddress, nMaxEntries).uNextReport
            /\ (cap.k <= ReportSize(pcSize) =>
                    /\ eeprom[nBaseAddress] = cap.before[nBaseAddress]
                    /\ eeprom[nBaseAddress + 1] = cap.before[nBaseAddress + 1])
            /\ (cap.stage = "write" <=> cap.k < ReportSize(pcSize) + HeaderSize)
            /\ (cap.stage \in {"write", "arm"} => wdt # armSecondary)
            /\ (cap.stage = "hook" => wdt = armSecondary))
    /\ [][cap'.stage # cap.stage =>
            <<cap.stage, cap'.stage>> \in
                {<<"idle", "write">>, <<"cut", "write">>, <<"write", "arm">>,
                 <<"arm", "hook">>, <<"hook", "idle">>, <<"write", "cut">>}]_vars
    /\ [][eeprom' # eeprom => cap.stage = "write" /\ cap'.k = cap.k + 1]_vars

\* the third capture has wrapped into slot 0, stored its header and armed
\* the secondary watchdog
C19_Witness ==
    /\ cap.stage = "hook"
    /\ nTotal = 3
    /\ last.slot = 0
    /\ RawHeader = <<2, 1>>

\* C21: starting from empty storage (erased or cleared), after any number
\* of captures the most recently captured report lies in a slot whose index
\* is below the validated savedReports, so that dump() lists it.
C21_LatestReportListed ==
    (tracked /\ last.op = "capture") =>
        /\ last.slot < ValidHeader.savedReports
        /\ Len(dump(eeprom, nBaseAddress, nMaxEntries, pcSize, FALSE)) > 4 + last.slot

\* the storage addresses of the crash log: the header and maxEntries slots
LogRegion ==
    nBaseAddress .. (nBaseAddress + HeaderSize + nMaxEntries * ReportSize(pcSize) - 1)

C24_CountNeverDecreases ==
    [][nTotal' = nTotal + 1 =>
          loadHeader(eeprom', nBaseAddress, nMaxEntries).savedReports
              >= loadHeader(eeprom, nBaseAddress, nMaxEntries).savedReports]_vars

\* C25: a capture changes only the bytes of the slot at the validated
\* nextReport and the two header bytes; every other slot and every byte
\* outside the crash log keeps its value.
C25_CaptureFrame ==
    [][nTotal' = nTotal + 1 =>
          LET written == loadHeader(eeprom, nBaseAddress, nMaxEntries).uNextReport
          IN /\ written < nMaxEntries
             /\ \A a \in Addresses :
                   \/ a \in SlotAddresses(written)
                   \/ a \in {nBaseAddress, nBaseAddress + 1}
                   \/ eeprom'[a] = eeprom[a]
             /\ \A i \in 0 .. MaxEntries :
                   i # written => SlotBytes(i)' = SlotBytes(i)]_vars

\* a capture has filled a slot beside one that an earlier capture filled
C25_Witness ==
    /\ last.op = "capture"
    /\ last.slot = 1
    /\ nTotal = 2
    /\ SlotBytes(0) = ReportBytes(captured[1])
    /\ SlotBytes(1) = ReportBytes(captured[2])

\* a capture has just run while clear() was between two of its storage writes
Preempted == last.op = "capture" /\ clr.stage = "write"

\* the header a capture stores when it finds the header bytes s, n
HeaderAfterCapture(s, n) ==
    LET h == advanceHeader(
                 loadHeader(writeBlock(ErasedEeprom, nBaseAddress, <<s, n>>),
                            nBaseAddress, nMaxEntries),
                 nMaxEntries)
    IN <<h.savedReports, h.uNextReport>>

\* the headers of the serial orders: the capture alone on the storage clear()
\* started from, clear() following that capture, the capture following clear()
SerialHeaders ==
    {HeaderAfterCapture(clr.before[nBaseAddress], clr.before[nBaseAddress + 1]),
     <<0, 0>>,
     HeaderAfterCapture(0, 0)}

\* the number of zero writes of the loop of clear() that was preempted
LoopWrites ==
    loadHeader(clr.before, nBaseAddress, nMaxEntries).savedReports * ReportSize(pcSize)

\* C23 (as stated): a capture that preempts clear() between two of its
\* storage writes leaves the header of one of the serial orders: the capture
\* entirely before clear(), or entirely after it.
C23_PreemptionSerializable == Preempted => RawHeader \in SerialHeaders

\* C23 (amended): a capture that preempts clear() stores the header it
\* derives from the two header bytes as clear() had left them: each is the
\* byte from before clear() or 0, and the count byte is 0 once the loop of
\* clear() is over and its first header byte is written; the cursor byte may
\* then still be the old one, which no serial order produces.
C23_PreemptedHeader ==
    Preempted =>
        \E s \in (IF clr.k > LoopWrites THEN {0} ELSE {clr.before[nBaseAddress], 0}) :
            \E n \in {clr.before[nBaseAddress + 1], 0} :
                RawHeader = HeaderAfterCapture(s, n)

C23_Witness ==
    /\ Preempted
    /\ clr.k = LoopWrites + 1
    /\ clr.before[nBaseAddress + 1] = 1
    /\ RawHeader \notin SerialHeaders


============================================================================
